---- MODULE Spec2Model ----
(***************************************************************************)
(* Model of the tar extraction engine of go-gather (expand/tar/tar.go)     *)
(* and of the helpers it calls (internal/helpers/helpers.go).              *)
(*                                                                         *)
(* One call of untar is a state machine: pc is the position in the body    *)
(* of the for-loop, the tar stream hands out one header per ReadNext, and  *)
(* the file system is the pair (dirs, files).  A path is a sequence of     *)
(* components; <<>> is the file-system root "/".  The content of a file    *)
(* is modelled by its length in bytes.                                     *)
(***************************************************************************)
EXTENDS Integers, Sequences, FiniteSets, TLC

\* ---- bounds of the model ------------------------------------------------
MaxEntries == 3      \* entries in the tar stream
MaxSize    == 2      \* declared size of one entry
MaxLimit   == 3      \* largest FileSizeLimit tried (0 = unlimited)
MaxFiles   == 2      \* largest FilesLimit tried (0 = unlimited)

\* ---- inputs ---------------------------------------------------------------
\* destination handed to untar
dst == <<"d">>

\* entry names as stored in the archive
RawNames == { <<"a">>, <<"a", "b">>, <<"..", "c">> }

\* tar.TypeXGlobalHeader, tar.TypeXHeader
ExtendedTypes == {"xglobal", "xheader"}

NoHeader == [raw |-> <<>>, Name |-> <<>>, typ |-> "none", size |-> 0]

VARIABLES
    dir,            \* untar parameter dir
    fileSizeLimit,  \* untar parameter fileSizeLimit
    filesLimit,     \* untar parameter filesLimit
    archiveLen,     \* number of entries in the tar stream
    pos,            \* entries handed out by tarReader so far
    pc,             \* position in untar
    err,            \* error returned by untar ("none" while running)
    header,         \* header returned by the last tarReader.Next()
    fPath,          \* local fPath
    finished,       \* local finished
    fileSize,       \* local fileSize
    filesCount,     \* local filesCount
    dirHeaders,     \* local dirHeaders (the Name of each header)
    fixIdx,         \* index of the range loop over dirHeaders
    dirs,           \* file system: the directories
    files,          \* file system: path -> length of the file's content
    stamped,        \* files whose times were set by os.Chtimes
    fixLog,         \* directories chmod-ed and chtimes-ed, in order
    written,        \* bytes copied to disk by io.Copy in this call
    filesSeen,      \* history: regular-file headers read so far
    dirsSeen,       \* history: directory headers read so far
    dotdot          \* history: TRUE once a header whose stored name has ".." was read

params == << dir, fileSizeLimit, filesLimit, archiveLen >>
locals == << finished, fileSize, filesCount, dirHeaders, fixIdx >>
fsys   == << dirs, files, stamped, fixLog, written >>
hist   == << filesSeen, dirsSeen, dotdot >>

\* ---- Bzip2Expander.Expand (bzip2 package) -----------------------------------------
VARIABLES
    bSrc,           \* parameter src
    bDst,           \* parameter dst
    bDstArg,        \* history: dst as the caller passed it
    bDir,           \* parameter dir
    bLimit,         \* b.FileSizeLimit
    bHomeOk,        \* os.UserHomeDir succeeds
    bSrcOk,         \* os.Open(src) succeeds
    bStream,        \* bytes the bzip2 stream decompresses to
    bLeft,          \* bytes bzipReader has not delivered yet
    bOpened,        \* the source file was opened
    bPc,            \* position in Expand
    bErr,           \* error returned by Expand ("none" while running)
    bErrLimit,      \* the number printed in the size-limit error
    outputFile,     \* local outputFile
    totalBytes,     \* local totalBytes
    bDirs0,         \* history: the directories before the call
    bFiles0         \* history: the files before the call

bargs  == << bDstArg, bDir, bLimit, bHomeOk, bSrcOk, bStream, bDirs0, bFiles0 >>
bzvars == << bSrc, bDst, bargs, bLeft, bOpened, bPc, bErr, bErrLimit,
             outputFile, totalBytes >>

\* ---- the expander registry (package expand) ------------------------------------
VARIABLES
    expanders,      \* var expanders []Expander
    regLog,         \* history: the arguments of the RegisterExpander calls, in order
    call            \* the call that returned last, with its argument and result

regvars == << expanders, regLog, call >>

NoCall == [op |-> "none"]

IdleReg == expanders = <<>> /\ regLog = <<>> /\ call = NoCall

\* ---- repeated calls of untar -----------------------------------------------------
VARIABLES
    archive,        \* the entries of the tar stream when it is fixed in advance
                    \* (<<>> while the reader draws them as it goes)
    run,            \* which call of untar is running (0: calls are not counted)
    first           \* history: how the first call ended

twicevars == << archive, run, first >>

NoFirst == [pc |-> "none"]

IdleTwice == archive = <<>> /\ run = 0 /\ first = NoFirst

\* ---- two calls of Expand on one expander -----------------------------------------
VARIABLES
    cur,            \* the call that is running now (0: a single call)
    saved,          \* the state of the call that is waiting
    alone,          \* history: how each call ended when it ran by itself
    phase           \* "alone": the calls run one after the other; "both": interleaved

concvars == << cur, saved, alone, phase >>

NoCtx == [pc |-> "none"]

IdleConc == cur = 0 /\ saved = NoCtx /\ alone = <<>> /\ phase = "idle"

\* ---- IsCompressedFile (package expand) --------------------------------------------
VARIABLES
    sContent,       \* the bytes of the file
    sOpenOk,        \* os.Open(filename) succeeds
    sHeader,        \* local header
    sLeft,          \* the formats the range loop has not visited yet
    sPc,            \* position in IsCompressedFile
    sRes,           \* the returned (bool, string, error)
    sRun,           \* which of two calls on the same file is running
    sFirst          \* history: what the first call returned

sniffvars == << sContent, sOpenOk, sHeader, sLeft, sPc, sRes, sRun, sFirst >>

NoRes == [ok |-> FALSE, format |-> "", err |-> "pending"]

IdleSniff ==
    /\ sContent = <<>> /\ sOpenOk = TRUE /\ sHeader = <<>> /\ sLeft = {}
    /\ sPc = "idle" /\ sRes = NoRes /\ sRun = 0 /\ sFirst = NoRes

\* the variables of untar other than the file system
tarOnly == << params, pos, pc, err, header, fPath, locals, stamped, fixLog,
              written, hist >>

\* what a call of untar leaves alone
others == << bzvars, regvars, twicevars, concvars, sniffvars >>

IdleBz ==
    /\ bSrc = <<>> /\ bDst = <<>> /\ bDstArg = <<>>
    /\ bDir = FALSE /\ bLimit = 0 /\ bHomeOk = TRUE /\ bSrcOk = TRUE
    /\ bStream = 0 /\ bLeft = 0 /\ bOpened = FALSE
    /\ bPc = "idle" /\ bErr = "none" /\ bErrLimit = 0
    /\ outputFile = <<>> /\ totalBytes = 0
    /\ bDirs0 = {} /\ bFiles0 = << >>

IdleOthers == IdleBz /\ IdleReg /\ IdleTwice /\ IdleConc /\ IdleSniff

\* what a call of Bzip2Expander.Expand leaves alone, the file system aside
bzOthers == << tarOnly, regvars, twicevars, concvars, sniffvars >>

\* what a call of the registry leaves alone
regOthers == << tarOnly, dirs, files, bzvars, twicevars, concvars,
               sniffvars >>

\* every variable of the module
vars == << dir, fileSizeLimit, filesLimit, archiveLen, pos, pc, err, header,
           fPath, finished, fileSize, filesCount, dirHeaders, fixIdx,
           dirs, files, stamped, fixLog, written, filesSeen, dirsSeen, dotdot,
           others >>

\* ---- path helpers -----------------------------------------------------------
Front(s) == SubSeq(s, 1, Len(s) - 1)

\* filepath.Clean of a rooted path: "." dropped, ".." pops one component and
\* stays at the root
RECURSIVE CleanFrom(_, _)
CleanFrom(stack, rest) ==
    IF rest = <<>> THEN stack
    ELSE IF Head(rest) = ".." THEN
             CleanFrom(IF stack = <<>> THEN <<>> ELSE Front(stack), Tail(rest))
    ELSE CleanFrom(Append(stack, Head(rest)), Tail(rest))

\* filepath.Join(a, b)
Join(a, b) == CleanFrom(<<>>, a \o b)

\* filepath.Dir
Dir(p) == IF p = <<>> THEN <<>> ELSE Front(p)

\* helpers.ContainsDotDot
ContainsDotDot(v) == \E i \in 1..Len(v) : v[i] = ".."

\* the name filter of the safearchive reader built by tar.NewReader: the
\* name is cleaned against "/" and made relative
SanitizeName(n) == CleanFrom(<<>>, n)

IsPrefix(p, q) == Len(p) <= Len(q) /\ SubSeq(q, 1, Len(p)) = p

InsideDst(p) == IsPrefix(dst, p)

\* ---- file-system helpers ----------------------------------------------------
IsDir(p)  == p \in dirs
IsFile(p) == p \in DOMAIN files
Exists(p) == IsDir(p) \/ IsFile(p)

Prefixes(p) == { SubSeq(p, 1, k) : k \in 0..Len(p) }

\* os.MkdirAll(p) succeeds unless p or one of its ancestors is a file
MkdirAllOk(p) == \A q \in Prefixes(p) : ~IsFile(q)
MkdirAllDirs(p) == dirs \cup Prefixes(p)

\* os.Stat(p) reports "does not exist" (ENOENT): p is absent and the first
\* missing ancestor hangs below a directory
StatNotExist(p) ==
    /\ ~Exists(p)
    /\ \A q \in Prefixes(p) : ~IsFile(q)

\* os.OpenFile(p, O_RDWR|O_CREATE|O_TRUNC) succeeds when p is not a
\* directory and its parent is one
OpenOk(p) == p # <<>> /\ ~IsDir(p) /\ IsDir(Dir(p))

Min(a, b) == IF a <= b THEN a ELSE b

\* io.LimitReader(src, fileSizeLimit) followed by io.Copy: bytes delivered
\* from an entry holding n bytes
LimitedCopy(n, limit) == IF limit > 0 THEN Min(n, limit) ELSE n

\* ---- the tar stream -----------------------------------------------------------
Headers ==
    [raw : RawNames, typ : {"file", "dir"}, size : 0..MaxSize]
      \cup [raw : {<<"a">>}, typ : ExtendedTypes, size : {0}]

MkHeader(h) == [raw |-> h.raw, Name |-> SanitizeName(h.raw),
                typ |-> h.typ, size |-> h.size]

\* a block of the stream that tarReader.Next() cannot read as a header
BadBlock == [raw |-> <<>>, typ |-> "bad", size |-> 0]

\* what tarReader.Next() may deliver at the reader's position: the recorded
\* entry when the stream is fixed in advance, any header otherwise
Upcoming == IF archive = <<>> THEN Headers ELSE { archive[pos + 1] }

\* ---- initial state ------------------------------------------------------------
Init ==
    /\ dir \in BOOLEAN
    /\ fileSizeLimit \in 0..MaxLimit
    /\ filesLimit \in 0..MaxFiles
    /\ archiveLen \in 0..MaxEntries
    /\ pos = 0
    /\ pc = "loop"
    /\ err = "none"
    /\ header = NoHeader
    /\ fPath = <<>>
    /\ finished = FALSE
    /\ fileSize = 0
    /\ filesCount = 0
    /\ dirHeaders = <<>>
    /\ fixIdx = 1
    /\ dirs = { <<>> }
    /\ files = << >>
    /\ stamped = {}
    /\ fixLog = <<>>
    /\ written = 0
    /\ filesSeen = 0
    /\ dirsSeen = 0
    /\ dotdot = FALSE
    /\ IdleOthers

Fail(e) == pc' = "failed" /\ err' = e

\* ---- untar, step by step --------------------------------------------------------
\* tar.go 110-115: the entry counter at the top of the loop
CountFiles ==
    /\ pc = "loop"
    /\ IF filesLimit > 0
       THEN /\ filesCount' = filesCount + 1
            /\ IF filesCount + 1 > filesLimit
               THEN Fail("count")
               ELSE pc' = "next" /\ err' = err
       ELSE /\ filesCount' = filesCount
            /\ pc' = "next" /\ err' = err
    /\ UNCHANGED << params, pos, header, fPath, finished, fileSize,
                    dirHeaders, fixIdx, fsys, hist >>
    /\ UNCHANGED others

\* ReadEOF without the test of finished: end-of-stream always leaves the loop
ReadEOF_NoEmptyCheck ==
    /\ pc = "next"
    /\ pos = archiveLen
    /\ pc' = "fixup" /\ err' = err
    /\ UNCHANGED << params, pos, header, fPath, locals, fsys, hist >>
    /\ UNCHANGED others

\* tar.go 117-124: tarReader.Next() returns io.EOF
ReadEOF ==
    /\ pc = "next"
    /\ pos = archiveLen
    /\ IF ~finished THEN Fail("empty") ELSE pc' = "fixup" /\ err' = err
    /\ UNCHANGED << params, pos, header, fPath, locals, fsys, hist >>
    /\ UNCHANGED others

\* tar.go 117, 126-128: tarReader.Next() returns a header, or another error
ReadNext ==
    /\ pc = "next"
    /\ pos < archiveLen
    /\ \/ \E h \in Upcoming :
            /\ h.typ # "bad"
            /\ header' = MkHeader(h)
            /\ pos' = pos + 1
            /\ filesSeen' = IF h.typ = "file" THEN filesSeen + 1 ELSE filesSeen
            /\ dirsSeen' = IF h.typ = "dir" THEN dirsSeen + 1 ELSE dirsSeen
            /\ dotdot' = (dotdot \/ ContainsDotDot(h.raw))
            /\ pc' = "typeflag" /\ err' = err
       \/ /\ IF archive = <<>> THEN TRUE ELSE archive[pos + 1].typ = "bad"
          /\ Fail("read")
          /\ UNCHANGED << header, pos, hist >>
    /\ UNCHANGED << params, fPath, locals, fsys >>
    /\ UNCHANGED others

\* tar.go 130-132: extended headers are skipped
SkipExtended ==
    /\ pc = "typeflag"
    /\ header.typ \in ExtendedTypes
    /\ pc' = "loop"
    /\ UNCHANGED << params, pos, err, header, fPath, locals, fsys, hist >>
    /\ UNCHANGED others

\* tar.go 134-140: the output path
ComputePath ==
    /\ pc = "typeflag"
    /\ header.typ \notin ExtendedTypes
    /\ fPath' = IF dir THEN Join(dst, header.Name) ELSE dst
    /\ pc' = "size"
    /\ UNCHANGED << params, pos, err, header, locals, fsys, hist >>
    /\ UNCHANGED others

\* CheckSize comparing the size of the entry alone against the limit
CheckSize_PerEntry ==
    /\ pc = "size"
    /\ fileSize' = fileSize + header.size
    /\ IF fileSizeLimit > 0 /\ header.size > fileSizeLimit
       THEN Fail("size")
       ELSE pc' = "kind" /\ err' = err
    /\ UNCHANGED << params, pos, header, fPath, finished, filesCount,
                    dirHeaders, fixIdx, fsys, hist >>
    /\ UNCHANGED others

\* tar.go 142-147: the running declared size
CheckSize ==
    /\ pc = "size"
    /\ fileSize' = fileSize + header.size
    /\ IF fileSizeLimit > 0 /\ fileSize + header.size > fileSizeLimit
       THEN Fail("size")
       ELSE pc' = "kind" /\ err' = err
    /\ UNCHANGED << params, pos, header, fPath, finished, filesCount,
                    dirHeaders, fixIdx, fsys, hist >>
    /\ UNCHANGED others

\* DirEntry without the test of dir
DirEntry_NoDirCheck ==
    /\ pc = "kind"
    /\ header.typ = "dir"
    /\ IF ~MkdirAllOk(fPath)
       THEN Fail("mkdir") /\ UNCHANGED << dirs, dirHeaders >>
       ELSE /\ dirs' = MkdirAllDirs(fPath)
            /\ dirHeaders' = Append(dirHeaders, header.Name)
            /\ pc' = "loop" /\ err' = err
    /\ UNCHANGED << params, pos, header, fPath, finished, fileSize, filesCount,
                    fixIdx, files, stamped, fixLog, written, hist >>
    /\ UNCHANGED others

\* DirEntry applying the mode and times of the directory at once
DirEntry_Eager ==
    /\ pc = "kind"
    /\ header.typ = "dir"
    /\ IF ~dir
       THEN Fail("notfile") /\ UNCHANGED << dirs, dirHeaders, fixLog >>
       ELSE IF ~MkdirAllOk(fPath)
       THEN Fail("mkdir") /\ UNCHANGED << dirs, dirHeaders, fixLog >>
       ELSE /\ dirs' = MkdirAllDirs(fPath)
            /\ dirHeaders' = dirHeaders
            /\ fixLog' = Append(fixLog, fPath)
            /\ pc' = "loop" /\ err' = err
    /\ UNCHANGED << params, pos, header, fPath, finished, fileSize, filesCount,
                    fixIdx, files, stamped, written, hist >>
    /\ UNCHANGED others

\* tar.go 149-160: a directory entry
DirEntry ==
    /\ pc = "kind"
    /\ header.typ = "dir"
    /\ IF ~dir
       THEN Fail("notfile") /\ UNCHANGED << dirs, dirHeaders >>
       ELSE IF ~MkdirAllOk(fPath)
       THEN Fail("mkdir") /\ UNCHANGED << dirs, dirHeaders >>
       ELSE /\ dirs' = MkdirAllDirs(fPath)
            /\ dirHeaders' = Append(dirHeaders, header.Name)
            /\ pc' = "loop" /\ err' = err
    /\ UNCHANGED << params, pos, header, fPath, finished, fileSize, filesCount,
                    fixIdx, files, stamped, fixLog, written, hist >>
    /\ UNCHANGED others

\* tar.go 161-169: the parent directory of a file entry
FileParent ==
    /\ pc = "kind"
    /\ header.typ = "file"
    /\ LET destPath == Dir(fPath) IN
       IF StatNotExist(destPath)
       THEN IF MkdirAllOk(destPath)
            THEN dirs' = MkdirAllDirs(destPath) /\ pc' = "single" /\ err' = err
            ELSE Fail("mkdir") /\ dirs' = dirs
       ELSE dirs' = dirs /\ pc' = "single" /\ err' = err
    /\ UNCHANGED << params, pos, header, fPath, locals, files, stamped,
                    fixLog, written, hist >>
    /\ UNCHANGED others

\* CheckSingle with the destination opened and truncated before the test
CheckSingle_AfterOpen ==
    /\ pc = "single"
    /\ IF ~dir /\ finished
       THEN /\ Fail("multi") /\ finished' = finished
            /\ files' = IF OpenOk(fPath)
                         THEN [p \in DOMAIN files \cup {fPath} |->
                                  IF p = fPath THEN 0 ELSE files[p]]
                         ELSE files
       ELSE finished' = TRUE /\ pc' = "open" /\ err' = err /\ files' = files
    /\ UNCHANGED << params, pos, header, fPath, fileSize, filesCount,
                    dirHeaders, fixIdx, dirs, stamped, fixLog, written, hist >>
    /\ UNCHANGED others

\* tar.go 171-175: single-file mode accepts one file
CheckSingle ==
    /\ pc = "single"
    /\ IF ~dir /\ finished
       THEN Fail("multi") /\ finished' = finished
       ELSE finished' = TRUE /\ pc' = "open" /\ err' = err
    /\ UNCHANGED << params, pos, header, fPath, fileSize, filesCount,
                    dirHeaders, fixIdx, fsys, hist >>
    /\ UNCHANGED others

\* helpers.go 60-64: CopyReader opens, creates and truncates the file
OpenFile ==
    /\ pc = "open"
    /\ IF OpenOk(fPath)
       THEN /\ files' = [p \in DOMAIN files \cup {fPath} |->
                            IF p = fPath THEN 0 ELSE files[p]]
            /\ pc' = "copy" /\ err' = err
       ELSE Fail("open") /\ files' = files
    /\ UNCHANGED << params, pos, header, fPath, locals, dirs, stamped,
                    fixLog, written, hist >>
    /\ UNCHANGED others

\* the cap as the budget left after the earlier entries of the call
CopyCap_Remaining ==
    IF fileSizeLimit > 0 THEN fileSizeLimit - (fileSize - header.size) ELSE 0

\* tar.go 177: the fileSizeLimit argument handed to helpers.CopyReader
CopyCap == fileSizeLimit

\* helpers.go 66-76: CopyReader copies the entry through the limit reader
CopyBytes ==
    /\ pc = "copy"
    /\ LET n == LimitedCopy(header.size, CopyCap) IN
         /\ files' = [files EXCEPT ![fPath] = n]
         /\ written' = written + n
    /\ pc' = "chtimes"
    /\ UNCHANGED << params, pos, err, header, fPath, locals, dirs, stamped,
                    fixLog, hist >>
    /\ UNCHANGED others

\* tar.go 182-194: the file's times
FileTimes ==
    /\ pc = "chtimes"
    /\ stamped' = stamped \cup {fPath}
    /\ pc' = "loop"
    /\ UNCHANGED << params, pos, err, header, fPath, locals, dirs, files,
                    fixLog, written, hist >>
    /\ UNCHANGED others

\* FixUp running also after a failure, as a deferred clean-up would
FixUp_AfterFailure ==
    /\ pc \in {"fixup", "failed"}
    /\ fixIdx <= Len(dirHeaders)
    /\ fixLog' = Append(fixLog, Join(dst, dirHeaders[fixIdx]))
    /\ fixIdx' = fixIdx + 1
    /\ UNCHANGED << params, pos, pc, err, header, fPath, finished, fileSize,
                    filesCount, dirHeaders, dirs, files, stamped, written,
                    hist >>
    /\ UNCHANGED others

\* tar.go 197-216: one round of the loop over dirHeaders
FixUp ==
    /\ pc = "fixup"
    /\ fixIdx <= Len(dirHeaders)
    /\ fixLog' = Append(fixLog, Join(dst, dirHeaders[fixIdx]))
    /\ fixIdx' = fixIdx + 1
    /\ UNCHANGED << params, pos, pc, err, header, fPath, finished, fileSize,
                    filesCount, dirHeaders, dirs, files, stamped, written,
                    hist >>
    /\ UNCHANGED others

\* tar.go 217: return nil
Return ==
    /\ pc = "fixup"
    /\ fixIdx > Len(dirHeaders)
    /\ pc' = "done"
    /\ UNCHANGED << params, pos, err, header, fPath, locals, fsys, hist >>
    /\ UNCHANGED others

Next ==
    \/ CountFiles
    \/ ReadEOF
    \/ ReadNext
    \/ SkipExtended
    \/ ComputePath
    \/ CheckSize
    \/ DirEntry
    \/ FileParent
    \/ CheckSingle
    \/ OpenFile
    \/ CopyBytes
    \/ FileTimes
    \/ FixUp
    \/ Return

\* file and directory headers read so far
realSeen == filesSeen + dirsSeen

Spec == Init /\ [][Next]_vars

TypeOK ==
    /\ pc \in {"loop", "next", "typeflag", "size", "kind", "single", "open",
               "copy", "chtimes", "fixup", "done", "failed"}
    /\ pos \in 0..archiveLen
    /\ (pc = "failed") = (err # "none")

\* ---- positions of untar ---------------------------------------------------------
\* the current entry passed the path step and is being validated or written
Handling == {"size", "kind", "single", "open", "copy", "chtimes"}
\* the current entry passed the size check
Materializing == {"kind", "single", "open", "copy", "chtimes"}
Terminal == {"done", "failed"}
\* errors of the operating system and of the stream, not of validation
IOErrors == {"read", "mkdir", "open"}

WithinFilesLimit == filesLimit > 0 => archiveLen <= filesLimit
WithinSizeLimit == fileSizeLimit > 0 => fileSize <= fileSizeLimit

\* ---- C1 ---------------------------------------------------------------------------
\* C1: in directory mode an entry whose stored name has a ".." component
\* never gets past the path step: untar is Failed with a path-escape error
\* there, and every path on disk lies inside the destination root.
C1_DotDotRejected ==
    /\ (dir /\ header.typ \in {"file", "dir"} /\ ContainsDotDot(header.raw)
            /\ pc # "typeflag")
          => (pc = "failed" /\ err = "escape")
    /\ dir => \A p \in dirs \cup DOMAIN files : p = <<>> \/ InsideDst(p)

\* ---- C2 ---------------------------------------------------------------------------
\* C2: with FileSizeLimit L > 0, the entry at which the running declared
\* size first exceeds L fails the call with the size-limit error before
\* anything of it reaches the disk; no entry is materialized beyond the
\* limit and the bytes written by the call never exceed L.
C2_SizeLimit ==
    /\ [](fileSizeLimit > 0 => written <= fileSizeLimit)
    /\ []((fileSizeLimit > 0 /\ pc \in Materializing) => fileSize <= fileSizeLimit)
    /\ [](err = "size" => /\ fileSize > fileSizeLimit
                          /\ fileSize - header.size <= fileSizeLimit)
    /\ [][(pc = "size" /\ fileSizeLimit > 0
              /\ fileSize + header.size > fileSizeLimit)
            => (pc' = "failed" /\ err' = "size" /\ UNCHANGED fsys)]_vars

\* the limit trips on a later entry, after bytes of earlier entries were written
C2_Witness == err = "size" /\ written > 0 /\ pos >= 2

\* ---- C3 ---------------------------------------------------------------------------
\* C3: with FilesLimit N > 0 the entry-count error is returned exactly when
\* the archive has more than N entries, on reaching entry N+1 (stated for
\* streams in which every header read was a file or a directory).
C3_CountExact ==
    filesLimit > 0 =>
        /\ (err = "count" /\ realSeen = pos)
              => (archiveLen > filesLimit /\ pos = filesLimit)
        /\ pc = "done" => archiveLen <= filesLimit

\* ---- C4 ---------------------------------------------------------------------------
\* C4: an archive with at least one file entry, within both limits and
\* without ".." names, read to its end in directory mode without an I/O
\* error, ends in Done with the last entry on disk (a file with its full
\* content, or a directory).
C4_WithinLimitsDone ==
    (/\ dir /\ filesSeen > 0 /\ pos = archiveLen
     /\ WithinFilesLimit /\ WithinSizeLimit /\ ~dotdot
     /\ pc \in Terminal /\ err \notin IOErrors)
      => /\ pc = "done"
         /\ header.typ = "file" => (IsFile(fPath) /\ files[fPath] = header.size)
         /\ header.typ = "dir" => IsDir(fPath)

\* ---- C5 ---------------------------------------------------------------------------
\* C5: extended headers do not count against FilesLimit: while an entry is
\* handled the running count equals the file and directory headers read, and
\* an entry-count error means that many real entries reached the limit.
C5_ExtendedNotCounted ==
    filesLimit > 0 =>
        /\ pc \in Handling => filesCount = realSeen
        /\ err = "count" => realSeen >= filesLimit

\* ---- C6 ---------------------------------------------------------------------------
\* C6: a stream with zero entries ends in Failed with the empty-archive
\* error, whatever dir and the limits are; it never succeeds and never
\* touches the disk.
C6_EmptyArchiveFails ==
    archiveLen = 0 =>
        /\ pc \in {"loop", "next"} \/ (pc = "failed" /\ err = "empty")
        /\ dirs = { <<>> } /\ files = << >>

C6_Witness ==
    archiveLen = 0 /\ err = "empty" /\ ~dir /\ filesLimit > 0 /\ fileSizeLimit > 0

\* ---- C7 ---------------------------------------------------------------------------
\* C7: once a file or directory entry was seen, end-of-stream is not the
\* empty-archive failure: the call goes on to the fix-ups and Done.
C7_RealEntryDone == err = "empty" => realSeen = 0

\* ---- C8 ---------------------------------------------------------------------------
\* C8: single-file mode: an archive with exactly one file entry and no
\* directory entry, within the limits, ends in Done with the content at the
\* literal destination; a second file entry fails with more-than-one-file.
C8_SingleFileMode ==
    ~dir =>
        /\ (/\ pc \in Terminal /\ pos = archiveLen
            /\ filesSeen = 1 /\ dirsSeen = 0
            /\ WithinFilesLimit /\ WithinSizeLimit /\ err \notin IOErrors)
             => (pc = "done" /\ IsFile(dst) /\ files[dst] = fileSize)
        /\ err = "multi" => filesSeen = 2
        /\ filesSeen >= 2 => pc \in {"typeflag", "size", "kind", "single", "failed"}

\* ---- C9 ---------------------------------------------------------------------------
\* C9: with dir=false a directory entry that gets to the type test fails
\* with expected-a-file and no directory is ever created; with dir=true the
\* directory tree of the entry exists afterwards (also when it existed
\* before), the entry is the last of dirHeaders and no fix-up has been applied.
C9_DirectoryEntry ==
    /\ ~dir => dirs = { <<>> }
    /\ (~dir /\ header.typ = "dir" /\ pc \notin {"typeflag", "size", "kind"})
          => (pc = "failed" /\ err \in {"size", "notfile"})
    /\ (~dir /\ err = "notfile") => header.typ = "dir"
    /\ (dir /\ header.typ = "dir" /\ pc \in {"loop", "next"})
          => /\ Prefixes(fPath) \subseteq dirs
             /\ dirHeaders # <<>>
             /\ dirHeaders[Len(dirHeaders)] = header.Name
             /\ fixLog = <<>>
    /\ (dir /\ pc \in {"loop", "next", "fixup", "done"})
          => Len(dirHeaders) = dirsSeen

\* the same directory is extracted twice
C9_Witness ==
    /\ dir /\ pc = "loop" /\ Len(dirHeaders) = 2
    /\ dirHeaders[1] = dirHeaders[2] /\ header.typ = "dir"

\* ---- C10 --------------------------------------------------------------------------
\* C10: fix-ups start only after the stream is exhausted, nothing is written
\* once a fix-up was applied, and the fix-ups are one per directory entry in
\* the order of the entries.
C10_DeferredFixUp ==
    /\ [](fixLog # <<>> => (pc \in {"fixup", "done"} /\ pos = archiveLen))
    /\ [](/\ Len(fixLog) <= Len(dirHeaders)
          /\ \A i \in 1..Len(fixLog) : fixLog[i] = Join(dst, dirHeaders[i]))
    /\ [](pc = "done" => (Len(fixLog) = dirsSeen /\ Len(fixLog) = Len(dirHeaders)))
    /\ [][(fixLog # <<>> \/ fixLog' # fixLog)
            => (files' = files /\ dirs' = dirs /\ written' = written)]_vars

\* two different directories fixed up after a file was written
C10_Witness ==
    /\ pc = "done" /\ Len(fixLog) = 2 /\ fixLog[1] # fixLog[2]
    /\ files # << >>

\* ---- C16 --------------------------------------------------------------------------
\* C16: an error ends the call and rolls nothing back: the failing step
\* leaves the disk and the stream position as they were, no step follows
\* it, and a failed call has applied no directory fix-up.
C16_ErrorsTerminal ==
    /\ [][pc' = "failed" => (/\ dirs' = dirs /\ files' = files
                             /\ stamped' = stamped /\ fixLog' = fixLog
                             /\ written' = written /\ pos' = pos)]_vars
    /\ [][pc = "failed" => UNCHANGED vars]_vars
    /\ [](err # "none" => (pc = "failed" /\ fixLog = <<>>))

\* a failure with a file and a directory on disk and entries left unread
C16_Witness ==
    /\ pc = "failed" /\ pos < archiveLen
    /\ files # << >> /\ dirHeaders # <<>>

\* ---- C19 --------------------------------------------------------------------------
\* C19 as stated: the cap handed to CopyReader is the budget left, L minus
\* the declared sizes of the entries before the current one.
C19_RemainingBudget ==
    (pc = "copy" /\ fileSizeLimit > 0)
        => CopyCap = fileSizeLimit - (fileSize - header.size)

\* C19 amended: the cap handed to CopyReader is the full limit L; the entry
\* being copied fits the budget left, because the size check passed before,
\* so the copy delivers the whole entry.
C19_FullLimitCap ==
    /\ (pc = "copy" /\ fileSizeLimit > 0)
          => /\ CopyCap = fileSizeLimit
             /\ header.size <= fileSizeLimit - (fileSize - header.size)
    /\ pc = "chtimes" => (IsFile(fPath) /\ files[fPath] = header.size)

\* a file is copied after earlier entries used part of the budget
C19_Witness ==
    /\ pc = "copy" /\ fileSizeLimit > 0
    /\ header.size > 0 /\ fileSize > header.size

\* ---- C20 --------------------------------------------------------------------------
\* C20: in single-file mode the failure on a second file entry leaves the
\* destination with the whole content of the first one.
C20_FirstFileKept ==
    (~dir /\ err = "multi")
        => /\ IsFile(dst)
           /\ files[dst] = fileSize - header.size
           /\ files[dst] = written
           /\ dst \in stamped

C20_Witness == ~dir /\ err = "multi" /\ IsFile(dst) /\ files[dst] > 0

\* ==== Bzip2Expander ===================================================================
MaxBzBytes == 3      \* longest decompressed stream
MaxChunk   == 2      \* most bytes one bzipReader.Read delivers (the buffer)

\* os.UserHomeDir()
homeDir == <<"h">>

\* the callers' destinations and sources
BzDsts == { <<"o", "f">>, <<"o", "..", "f">>, <<"~", "f">>, <<"~", "..", "f">> }
BzSrcs == { <<"s">>, <<"~", "s">> }

\* helpers.ExpandTilde: a path that does not start with "~" is returned as
\* it is; otherwise the rest is joined (and cleaned) onto the home directory
ExpandTilde(path, homeOk) ==
    IF path = <<>> \/ Head(path) # "~" THEN [ok |-> TRUE, path |-> path]
    ELSE IF ~homeOk THEN [ok |-> FALSE, path |-> <<>>]
    ELSE [ok |-> TRUE, path |-> Join(homeDir, Tail(path))]

\* filepath.Base: the last element, "/" for the root; never empty
Base(p) == IF p = <<>> THEN "/" ELSE p[Len(p)]

\* the untar variables while no untar call runs
TarIdle ==
    /\ dir = FALSE /\ fileSizeLimit = 0 /\ filesLimit = 0 /\ archiveLen = 0
    /\ pos = 0 /\ pc = "idle" /\ err = "none"
    /\ header = NoHeader /\ fPath = <<>>
    /\ finished = FALSE /\ fileSize = 0 /\ filesCount = 0
    /\ dirHeaders = <<>> /\ fixIdx = 1
    /\ stamped = {} /\ fixLog = <<>> /\ written = 0
    /\ filesSeen = 0 /\ dirsSeen = 0 /\ dotdot = FALSE

\* the state when Expand is called: any arguments, any limit, a destination
\* file that may exist already
InitBz ==
    /\ TarIdle
    /\ IdleReg /\ IdleTwice /\ IdleConc /\ IdleSniff
    /\ bSrc \in BzSrcs
    /\ bDst \in BzDsts
    /\ bDstArg = bDst
    /\ bDir \in BOOLEAN
    /\ bLimit \in 0..MaxLimit
    /\ bHomeOk \in BOOLEAN
    /\ bSrcOk \in BOOLEAN
    /\ bStream \in 0..MaxBzBytes
    /\ bLeft = bStream
    /\ bOpened = FALSE
    /\ bPc = "tilde"
    /\ bErr = "none"
    /\ bErrLimit = 0
    /\ outputFile = <<>>
    /\ totalBytes = 0
    /\ \E pre \in BOOLEAN :
         LET old == CleanFrom(<<>>, ExpandTilde(bDst, TRUE).path)
         IN  IF pre
             THEN dirs = Prefixes(Dir(old)) /\ files = [q \in {old} |-> 1]
             ELSE dirs = { <<>> } /\ files = << >>
    /\ bDirs0 = dirs
    /\ bFiles0 = files

BzFail(e) == bPc' = "failed" /\ bErr' = e

\* part_000 38-43: both paths are tilde-expanded
BzExpandTilde ==
    /\ bPc = "tilde"
    /\ LET s == ExpandTilde(bSrc, bHomeOk)
           d == ExpandTilde(bDst, bHomeOk)
       IN  IF ~s.ok THEN BzFail("tildesrc") /\ UNCHANGED << bSrc, bDst >>
           ELSE IF ~d.ok
                THEN BzFail("tildedst") /\ bSrc' = s.path /\ UNCHANGED bDst
                ELSE /\ bSrc' = s.path /\ bDst' = d.path
                     /\ bPc' = "dircheck" /\ UNCHANGED bErr
    /\ UNCHANGED << bargs, bLeft, bOpened, bErrLimit, outputFile, totalBytes >>
    /\ UNCHANGED << bzOthers, dirs, files >>

\* the directory mode passes unnoticed
BzCheckDir_Ignored ==
    /\ bPc = "dircheck"
    /\ bPc' = "open"
    /\ UNCHANGED << bSrc, bDst, bargs, bLeft, bOpened, bErr, bErrLimit,
                    outputFile, totalBytes >>
    /\ UNCHANGED << bzOthers, dirs, files >>

\* part_000 46-48: directory mode is refused
BzCheckDir ==
    /\ bPc = "dircheck"
    /\ IF bDir THEN BzFail("unsupported")
       ELSE bPc' = "open" /\ UNCHANGED bErr
    /\ UNCHANGED << bSrc, bDst, bargs, bLeft, bOpened, bErrLimit,
                    outputFile, totalBytes >>
    /\ UNCHANGED << bzOthers, dirs, files >>

\* part_000 50-56: os.Open(src), bzip2.NewReader
BzOpenSrc ==
    /\ bPc = "open"
    /\ IF bSrcOk THEN bOpened' = TRUE /\ bPc' = "output" /\ UNCHANGED bErr
       ELSE BzFail("opensrc") /\ UNCHANGED bOpened
    /\ UNCHANGED << bSrc, bDst, bargs, bLeft, bErrLimit, outputFile,
                    totalBytes >>
    /\ UNCHANGED << bzOthers, dirs, files >>

\* the output path is taken without the ".." test
BzOutput_NoCheck ==
    /\ bPc = "output"
    /\ outputFile' = (IF Base(bDst) = "" THEN Join(bDst, << Base(bSrc) >>)
                      ELSE bDst)
    /\ bPc' = "mkdir"
    /\ UNCHANGED << bSrc, bDst, bargs, bLeft, bOpened, bErr, bErrLimit,
                    totalBytes >>
    /\ UNCHANGED << bzOthers, dirs, files >>

\* part_000 58-65: the output path and its ".." test
BzOutput ==
    /\ bPc = "output"
    /\ outputFile' = (IF Base(bDst) = "" THEN Join(bDst, << Base(bSrc) >>)
                      ELSE bDst)
    /\ IF ContainsDotDot(outputFile') THEN BzFail("escape")
       ELSE bPc' = "mkdir" /\ UNCHANGED bErr
    /\ UNCHANGED << bSrc, bDst, bargs, bLeft, bOpened, bErrLimit, totalBytes >>
    /\ UNCHANGED << bzOthers, dirs, files >>

\* part_000 67-69: os.MkdirAll(filepath.Dir(outputFile))
BzMkdir ==
    /\ bPc = "mkdir"
    /\ IF MkdirAllOk(Dir(outputFile))
       THEN /\ dirs' = MkdirAllDirs(Dir(outputFile))
            /\ bPc' = "create" /\ UNCHANGED bErr
       ELSE BzFail("mkdir") /\ UNCHANGED dirs
    /\ UNCHANGED << bSrc, bDst, bargs, bLeft, bOpened, bErrLimit, outputFile,
                    totalBytes >>
    /\ UNCHANGED << bzOthers, files >>

\* part_000 71-75: os.OpenFile(outputFile, O_WRONLY|O_CREATE|O_TRUNC)
BzCreate ==
    /\ bPc = "create"
    /\ IF OpenOk(outputFile)
       THEN /\ files' = [q \in DOMAIN files \cup {outputFile} |->
                            IF q = outputFile THEN 0 ELSE files[q]]
            /\ bPc' = "read" /\ UNCHANGED bErr
       ELSE BzFail("create") /\ UNCHANGED files
    /\ UNCHANGED << bSrc, bDst, bargs, bLeft, bOpened, bErrLimit, outputFile,
                    totalBytes >>
    /\ UNCHANGED << bzOthers, dirs >>

\* the chunk is written before the limit is looked at
BzRead_WriteFirst ==
    /\ bPc = "read"
    /\ \E n \in 0..Min(MaxChunk, bLeft), eof \in BOOLEAN :
         /\ (n > 0 \/ eof)
         /\ eof => n = bLeft
         /\ files' = [files EXCEPT ![outputFile] = @ + n]
         /\ IF n > 0 /\ totalBytes + n > bLimit
            THEN /\ BzFail("size") /\ bErrLimit' = bLimit
                 /\ UNCHANGED << totalBytes, bLeft >>
            ELSE /\ totalBytes' = totalBytes + n
                 /\ bLeft' = bLeft - n
                 /\ bPc' = (IF eof THEN "done" ELSE "read")
                 /\ UNCHANGED << bErr, bErrLimit >>
    /\ UNCHANGED << bSrc, bDst, bargs, bOpened, outputFile >>
    /\ UNCHANGED << bzOthers, dirs >>

\* part_000 82-99: one turn of the read loop. bzipReader.Read delivers n
\* bytes, with io.EOF once the stream is exhausted, or a decoding error
BzRead ==
    /\ bPc = "read"
    /\ \/ \E n \in 0..Min(MaxChunk, bLeft), eof \in BOOLEAN :
            /\ (n > 0 \/ eof)
            /\ eof => n = bLeft
            /\ IF n > 0 /\ totalBytes + n > bLimit
               THEN /\ BzFail("size") /\ bErrLimit' = bLimit
                    /\ UNCHANGED << files, totalBytes, bLeft >>
               ELSE /\ files' = [files EXCEPT ![outputFile] = @ + n]
                    /\ totalBytes' = totalBytes + n
                    /\ bLeft' = bLeft - n
                    /\ bPc' = (IF eof THEN "done" ELSE "read")
                    /\ UNCHANGED << bErr, bErrLimit >>
       \/ /\ BzFail("decode")
          /\ UNCHANGED << files, totalBytes, bLeft, bErrLimit >>
    /\ UNCHANGED << bSrc, bDst, bargs, bOpened, outputFile >>
    /\ UNCHANGED << bzOthers, dirs >>

NextBz ==
    \/ BzExpandTilde
    \/ BzCheckDir
    \/ BzOpenSrc
    \/ BzOutput
    \/ BzMkdir
    \/ BzCreate
    \/ BzRead

SpecBz == InitBz /\ [][NextBz]_vars

\* the call has touched, or is about to touch, the file system
BzWriting == bPc \in {"mkdir", "create", "read", "done"}

\* the file system is as it was before the call
BzUntouched == dirs = bDirs0 /\ files = bFiles0

\* the read loop ran: the output file exists and holds what was written
BzReading == bPc \in {"read", "done"} \/ bErr \in {"size", "decode"}

\* C11: a limit of 0 means unlimited: with FileSizeLimit = 0 (the value of the
\* instance registered by init) Bzip2Expander.Expand never fails with the
\* size-limit error, whatever the stream decompresses to
C11_ZeroUnlimited == bLimit = 0 => bErr # "size"

\* C12: with FileSizeLimit L > 0 and a stream of N bytes, the bytes written
\* never exceed L and are the running total; the size-limit error happens
\* only for N > L and names L; a stream with N > L never succeeds; a call
\* that succeeds has written exactly the N bytes
C12_Bzip2SizeLimit ==
    bLimit > 0 =>
        /\ totalBytes <= bLimit
        /\ BzReading => (IsFile(outputFile) /\ files[outputFile] = totalBytes)
        /\ bErr = "size" => (bStream > bLimit /\ bErrLimit = bLimit)
        /\ bStream > bLimit => bPc # "done"
        /\ bPc = "done" => (bStream <= bLimit /\ files[outputFile] = bStream)

\* a stream longer than the limit was cut off after part of it was written
C12_Witness ==
    /\ bLimit > 0 /\ bErr = "size"
    /\ totalBytes > 0 /\ files[outputFile] = totalBytes

\* C13: with dir = true the call fails with the unsupported-mode error (the
\* only earlier exit is a failed home-directory lookup) and the file system
\* stays as it was: the source is never opened, nothing is created or
\* truncated
C13_DirUnsupported ==
    bDir =>
        /\ bPc \in {"tilde", "dircheck", "failed"}
        /\ bErr \in {"none", "unsupported", "tildesrc", "tildedst"}
        /\ bErr \in {"tildesrc", "tildedst"} => ~bHomeOk
        /\ ~bOpened
        /\ BzUntouched

\* the call was refused although source and destination were usable
C13_Witness ==
    /\ bDir /\ bErr = "unsupported" /\ bSrcOk
    /\ IsFile(CleanFrom(<<>>, bDst)) /\ BzUntouched

\* C14 as stated: with dir = false a destination given with a ".."
\* component never gets as far as the file-system writes
C14_DotDotRejected ==
    (~bDir /\ ContainsDotDot(bDstArg)) => ~BzWriting /\ ~BzReading

\* C14 amended: the test is made on the tilde-expanded destination. A
\* destination whose expanded form has a ".." component is rejected with the
\* path-escape error before any write; a destination given without "~" and
\* with ".." is always rejected; writes happen only below a path free of ".."
C14_ExpandedDotDotRejected ==
    ~bDir =>
        /\ (BzWriting \/ BzReading) => ~ContainsDotDot(outputFile)
        /\ bErr = "escape" => (ContainsDotDot(bDst) /\ BzUntouched)
        /\ (ContainsDotDot(bDst) /\ bPc \notin {"tilde", "dircheck", "open", "output"})
              => (bPc = "failed" /\ bErr \in {"escape", "opensrc", "tildesrc", "tildedst"}
                  /\ BzUntouched)
        /\ (ContainsDotDot(bDstArg) /\ Head(bDstArg) # "~")
              => (~BzWriting /\ ~BzReading /\ BzUntouched)

\* a rejected destination whose target file existed and was left alone
C14_Witness ==
    /\ ~bDir /\ bErr = "escape" /\ bOpened
    /\ bFiles0 # << >> /\ BzUntouched

\* ==== the registry =====================================================================
MaxReg == 3          \* most RegisterExpander calls

\* the registered values: pointers to expander instances of the two kinds
Instances == [kind : {"tar", "bzip2"}, id : 1..2]

\* GetExpander's nil
NoExpander == [kind |-> "nil", id |-> 0]

\* strings are sequences of characters
sTar   == << "t", "a", "r" >>
sTgz   == << "t", "g", "z" >>
sTbz2  == << "t", "b", "z", "2" >>
sBz2   == << "b", "z", "2" >>
sBzip2 == << "b", "z", "i", "p", "2" >>

\* the extensions and names callers look up
Hints == { sTar, sTgz, sTbz2, sBz2, sBzip2, sTar \o <<".">> \o sBz2,
           << "z", "i", "p" >>, <<>> }

\* strings.Contains
Contains(str, sub) ==
    \E i \in 1..(Len(str) - Len(sub) + 1) : SubSeq(str, i, i + Len(sub) - 1) = sub

\* TarExpander.Matcher
TarMatcher(fileName) ==
    \E ext \in {sTar, sTgz, sTbz2} : Contains(fileName, ext)

\* Bzip2Expander.Matcher
Bzip2Matcher(extension) ==
    /\ Contains(extension, sBz2) \/ Contains(extension, sBzip2)
    /\ ~Contains(extension, sTar)

\* expander.Matcher(extension), by the dynamic type of the expander
Matcher(e, extension) ==
    IF e.kind = "tar" THEN TarMatcher(extension) ELSE Bzip2Matcher(extension)

\* the loop of GetExpander over the list
RECURSIVE FirstMatch(_, _)
FirstMatch(list, extension) ==
    IF list = <<>> THEN NoExpander
    ELSE IF Matcher(Head(list), extension) THEN Head(list)
    ELSE FirstMatch(Tail(list), extension)

InitReg ==
    /\ TarIdle /\ dirs = { <<>> } /\ files = << >>
    /\ IdleBz /\ IdleTwice /\ IdleConc /\ IdleSniff
    /\ expanders = <<>>
    /\ regLog = <<>>
    /\ call = NoCall

\* the new expander is put in front of the list
RegisterExpander_Prepend(e) ==
    /\ Len(regLog) < MaxReg
    /\ expanders' = << e >> \o expanders
    /\ regLog' = Append(regLog, e)
    /\ call' = [op |-> "register", arg |-> e]
    /\ UNCHANGED regOthers

\* expander.go 44-46
RegisterExpander(e) ==
    /\ Len(regLog) < MaxReg
    /\ expanders' = Append(expanders, e)
    /\ regLog' = Append(regLog, e)
    /\ call' = [op |-> "register", arg |-> e]
    /\ UNCHANGED regOthers

\* expander.go 35-42
GetExpander(extension) ==
    /\ call' = [op |-> "lookup", arg |-> extension,
                result |-> FirstMatch(expanders, extension)]
    /\ UNCHANGED << expanders, regLog >>
    /\ UNCHANGED regOthers

NextReg ==
    \/ \E e \in Instances : RegisterExpander(e)
    \/ \E extension \in Hints : GetExpander(extension)

SpecReg == InitReg /\ [][NextReg]_vars

\* the positions of the list whose expander matches the extension
Matching(extension) ==
    { i \in 1..Len(expanders) : Matcher(expanders[i], extension) }

\* C15: the list is the registered expanders in call order (appended, with
\* duplicates, nothing removed or moved); a lookup returns the expander at the
\* earliest matching position, or nil when none matches, and leaves the list
\* as it was
C15_RegistryOrder ==
    /\ [](expanders = regLog)
    /\ [](call.op = "lookup" =>
            IF Matching(call.arg) = {} THEN call.result = NoExpander
            ELSE \E i \in Matching(call.arg) :
                    /\ call.result = expanders[i]
                    /\ \A j \in Matching(call.arg) : i <= j)
    /\ [][call'.op = "lookup" => expanders' = expanders]_vars
    /\ [][call'.op = "register" =>
            /\ Len(expanders') = Len(expanders) + 1
            /\ SubSeq(expanders', 1, Len(expanders)) = expanders]_vars

\* an ambiguous lookup: the first expander does not match, two later and
\* different ones do, and the earlier of them is returned
C15_Witness ==
    /\ call.op = "lookup"
    /\ Len(expanders) = 3
    /\ Matching(call.arg) = {2, 3}
    /\ expanders[2] # expanders[3]
    /\ call.result = expanders[2]

\* ==== untar run twice on the same archive ================================================
MaxTape == 2         \* most entries of an archive that is extracted twice

\* the entries of such an archive
TwiceHeaders ==
    [raw : { <<"a">>, <<"a", "b">> }, typ : {"file", "dir"}, size : {0, 1}]
      \cup { [raw |-> <<"a">>, typ |-> "xheader", size |-> 0], BadBlock }

Archives(n) == UNION { [1..k -> TwiceHeaders] : k \in 0..n }

\* how a call ended: the returned error and the tree below the destination
Outcome == [pc |-> pc, err |-> err, dirs |-> dirs, files |-> files]

InitTwice ==
    /\ dir \in BOOLEAN
    /\ fileSizeLimit \in 0..MaxLimit
    /\ filesLimit \in 0..MaxFiles
    /\ archive \in Archives(MaxTape)
    /\ archiveLen = Len(archive)
    /\ pos = 0 /\ pc = "loop" /\ err = "none"
    /\ header = NoHeader /\ fPath = <<>>
    /\ finished = FALSE /\ fileSize = 0 /\ filesCount = 0
    /\ dirHeaders = <<>> /\ fixIdx = 1
    /\ dirs = { <<>> } /\ files = << >>
    /\ stamped = {} /\ fixLog = <<>> /\ written = 0
    /\ filesSeen = 0 /\ dirsSeen = 0 /\ dotdot = FALSE
    /\ run = 1
    /\ first = NoFirst
    /\ IdleBz /\ IdleReg /\ IdleConc /\ IdleSniff

\* the second call starts with the counter the first call left behind
Restart_KeepCount ==
    /\ run = 1
    /\ pc \in Terminal
    /\ run' = 2
    /\ first' = Outcome
    /\ pos' = 0 /\ pc' = "loop" /\ err' = "none"
    /\ header' = NoHeader /\ fPath' = <<>>
    /\ finished' = FALSE /\ fileSize' = 0 /\ filesCount' = filesCount
    /\ dirHeaders' = <<>> /\ fixIdx' = 1
    /\ dirs' = { <<>> } /\ files' = << >>
    /\ stamped' = {} /\ fixLog' = <<>> /\ written' = 0
    /\ filesSeen' = 0 /\ dirsSeen' = 0 /\ dotdot' = FALSE
    /\ UNCHANGED << params, archive, bzvars, regvars, concvars, sniffvars >>

\* tar.go 97-107: the first call has returned; untar is called again with the
\* same archive and limits and an emptied destination, its locals declared
\* anew
Restart ==
    /\ run = 1
    /\ pc \in Terminal
    /\ run' = 2
    /\ first' = Outcome
    /\ pos' = 0 /\ pc' = "loop" /\ err' = "none"
    /\ header' = NoHeader /\ fPath' = <<>>
    /\ finished' = FALSE /\ fileSize' = 0 /\ filesCount' = 0
    /\ dirHeaders' = <<>> /\ fixIdx' = 1
    /\ dirs' = { <<>> } /\ files' = << >>
    /\ stamped' = {} /\ fixLog' = <<>> /\ written' = 0
    /\ filesSeen' = 0 /\ dirsSeen' = 0 /\ dotdot' = FALSE
    /\ UNCHANGED << params, archive, bzvars, regvars, concvars, sniffvars >>

NextTwice ==
    \/ Next
    \/ Restart

SpecTwice == InitTwice /\ [][NextTwice]_vars

\* C18: untar run twice on the same archive with the same limits, each time
\* into an empty destination, ends the same way both times: the same error
\* or success and the same tree of paths and file contents
C18_Idempotent ==
    (run = 2 /\ pc \in Terminal) => Outcome = first

\* the second run has rebuilt a tree with a directory and a non-empty file
C18_Witness ==
    /\ run = 2 /\ pc = "done" /\ first.pc = "done"
    /\ dirHeaders # <<>>
    /\ \E p \in DOMAIN files : files[p] > 0

\* ==== two concurrent calls of TarExpander.Expand on one expander ========================
\* the limits configured on the shared expander
ConcLimits == {0, 1}

\* the entries of the two archives
cFile == [raw |-> <<"a", "b">>, typ |-> "file", size |-> 1]
cDir  == [raw |-> <<"a">>, typ |-> "dir", size |-> 0]
cExt  == [raw |-> <<"a">>, typ |-> "xheader", size |-> 0]

\* the archives the two calls extract
ConcArchives ==
    { <<>>, << cFile >>, << cDir, cFile >>, << cFile, cFile >>,
      << cExt, cFile >> }

\* the state of the running call: its arguments, its position, its locals
\* and the tree below its own destination
Ctx ==
    [dir |-> dir, archive |-> archive, archiveLen |-> archiveLen,
     pos |-> pos, pc |-> pc, err |-> err, header |-> header, fPath |-> fPath,
     finished |-> finished, fileSize |-> fileSize, filesCount |-> filesCount,
     dirHeaders |-> dirHeaders, fixIdx |-> fixIdx,
     dirs |-> dirs, files |-> files, stamped |-> stamped, fixLog |-> fixLog,
     written |-> written, filesSeen |-> filesSeen, dirsSeen |-> dirsSeen,
     dotdot |-> dotdot]

\* tar.go 41-67, 97-107: the state of a call of Expand(src, dst, dir) at the
\* top of untar
FreshCtx(d, a) ==
    [dir |-> d, archive |-> a, archiveLen |-> Len(a),
     pos |-> 0, pc |-> "loop", err |-> "none", header |-> NoHeader,
     fPath |-> <<>>,
     finished |-> FALSE, fileSize |-> 0, filesCount |-> 0,
     dirHeaders |-> <<>>, fixIdx |-> 1,
     dirs |-> { <<>> }, files |-> << >>, stamped |-> {}, fixLog |-> <<>>,
     written |-> 0, filesSeen |-> 0, dirsSeen |-> 0, dotdot |-> FALSE]

\* tar.go 99-107: the locals of untar of the call that resumes
LoadLocals(c) ==
    /\ finished' = c.finished /\ fileSize' = c.fileSize
    /\ filesCount' = c.filesCount
    /\ dirHeaders' = c.dirHeaders /\ fixIdx' = c.fixIdx

\* the rest of the state of the call that resumes
LoadRest(c) ==
    /\ dir' = c.dir /\ archive' = c.archive /\ archiveLen' = c.archiveLen
    /\ pos' = c.pos /\ pc' = c.pc /\ err' = c.err
    /\ header' = c.header /\ fPath' = c.fPath
    /\ dirs' = c.dirs /\ files' = c.files /\ stamped' = c.stamped
    /\ fixLog' = c.fixLog /\ written' = c.written
    /\ filesSeen' = c.filesSeen /\ dirsSeen' = c.dirsSeen
    /\ dotdot' = c.dotdot

\* what a call decided and produced
ResultOf(c) ==
    [pc |-> c.pc, err |-> c.err, fileSize |-> c.fileSize,
     filesCount |-> c.filesCount, finished |-> c.finished,
     dirHeaders |-> c.dirHeaders, dirs |-> c.dirs, files |-> c.files]

NoResult == [pc |-> "none"]

InitConc ==
    /\ fileSizeLimit \in ConcLimits
    /\ filesLimit \in ConcLimits
    /\ \E d1 \in BOOLEAN, a1 \in ConcArchives :
         /\ dir = d1 /\ archive = a1 /\ archiveLen = Len(a1)
    /\ pos = 0 /\ pc = "loop" /\ err = "none"
    /\ header = NoHeader /\ fPath = <<>>
    /\ finished = FALSE /\ fileSize = 0 /\ filesCount = 0
    /\ dirHeaders = <<>> /\ fixIdx = 1
    /\ dirs = { <<>> } /\ files = << >>
    /\ stamped = {} /\ fixLog = <<>> /\ written = 0
    /\ filesSeen = 0 /\ dirsSeen = 0 /\ dotdot = FALSE
    /\ run = 0 /\ first = NoFirst
    /\ cur = 1
    /\ \E d2 \in BOOLEAN, a2 \in ConcArchives : saved = FreshCtx(d2, a2)
    /\ alone = [c \in {1, 2} |-> NoResult]
    /\ phase = "alone"
    /\ IdleBz /\ IdleReg /\ IdleSniff

\* the first call has run by itself: the second call runs by itself
StartSecond ==
    /\ phase = "alone" /\ cur = 1
    /\ pc \in Terminal
    /\ alone' = [alone EXCEPT ![1] = ResultOf(Ctx)]
    /\ saved' = FreshCtx(dir, archive)
    /\ LoadLocals(saved) /\ LoadRest(saved)
    /\ cur' = 2
    /\ UNCHANGED << fileSizeLimit, filesLimit, run, first, phase, bzvars,
                    regvars, sniffvars >>

\* both calls have run by themselves: they are started again, together
StartBoth ==
    /\ phase = "alone" /\ cur = 2
    /\ pc \in Terminal
    /\ alone' = [alone EXCEPT ![2] = ResultOf(Ctx)]
    /\ LoadLocals(FreshCtx(dir, archive)) /\ LoadRest(FreshCtx(dir, archive))
    /\ phase' = "both"
    /\ UNCHANGED << fileSizeLimit, filesLimit, run, first, cur, saved, bzvars,
                    regvars, sniffvars >>

\* the entry counter is a field of the expander: the resuming call finds the
\* count of the other call
Switch_SharedCount ==
    /\ phase = "both"
    /\ saved.pc \notin Terminal
    /\ saved' = Ctx
    /\ LoadRest(saved)
    /\ finished' = saved.finished /\ fileSize' = saved.fileSize
    /\ filesCount' = filesCount
    /\ dirHeaders' = saved.dirHeaders /\ fixIdx' = saved.fixIdx
    /\ cur' = 3 - cur
    /\ UNCHANGED << fileSizeLimit, filesLimit, run, first, alone, phase,
                    bzvars, regvars, sniffvars >>

\* tar.go 41-67, 97-107: the scheduler passes from one call to the other; each
\* call has its own arguments and locals, the expander's limits are shared
Switch ==
    /\ phase = "both"
    /\ saved.pc \notin Terminal
    /\ saved' = Ctx
    /\ LoadLocals(saved) /\ LoadRest(saved)
    /\ cur' = 3 - cur
    /\ UNCHANGED << fileSizeLimit, filesLimit, run, first, alone, phase,
                    bzvars, regvars, sniffvars >>

NextConc ==
    \/ Next
    \/ StartSecond
    \/ StartBoth
    \/ Switch

SpecConc == InitConc /\ [][NextConc]_vars

\* C17: under every interleaving of two calls on one expander, each call ends
\* as it does when it runs by itself (the same error or success, the same
\* byte total, entry count, file-written flag and directory queue, the same
\* tree), and the limits of the expander are never written
C17_AsAlone ==
    /\ []((phase = "both" /\ pc \in Terminal) => ResultOf(Ctx) = alone[cur])
    /\ []((phase = "both" /\ saved.pc \in Terminal)
             => ResultOf(saved) = alone[3 - cur])
    /\ [][fileSizeLimit' = fileSizeLimit /\ filesLimit' = filesLimit]_vars

\* both calls ended after being interleaved: this one stopped by the size
\* limit at its second entry, the other one done with a directory and a file
C17_Witness ==
    /\ phase = "both"
    /\ err = "size" /\ pos = 2 /\ fileSize = 2
    /\ saved.pc = "done" /\ saved.files # << >> /\ saved.dirHeaders # <<>>

\* C21: no extension is matched by both built-in expanders, so with the two
\* of them registered a lookup returns an expander of the same kind whichever
\* was registered first
C21_OneMatcher ==
    (/\ call.op = "lookup"
     /\ Len(expanders) = 2 /\ expanders[1].kind # expanders[2].kind)
        => /\ ~(TarMatcher(call.arg) /\ Bzip2Matcher(call.arg))
           /\ FirstMatch(<< expanders[2], expanders[1] >>, call.arg).kind
                 = call.result.kind

\* ==== IsCompressedFile ==================================================================
HeaderLen == 10      \* header := make([]byte, 10)

\* the table with a two-byte alias of the bzip2 signature added
magicNumbers_Alias ==
    "gzip" :> << 31, 139 >>
      @@ "zip" :> << 80, 75, 3, 4 >>
      @@ "tar" :> << 117, 115, 116, 97, 114 >>
      @@ "bzip2" :> << 66, 90, 104 >>
      @@ "bz" :> << 66, 90 >>
      @@ "xz" :> << 253, 55, 122, 88, 90, 0 >>
      @@ "7z" :> << 55, 122, 188, 175, 39, 28 >>

\* expander.go 49-56: the signatures, byte by byte (1f 8b; 50 4b 03 04;
\* 75 73 74 61 72; 42 5a 68; fd 37 7a 58 5a 00; 37 7a bc af 27 1c)
magicNumbers ==
    "gzip" :> << 31, 139 >>
      @@ "zip" :> << 80, 75, 3, 4 >>
      @@ "tar" :> << 117, 115, 116, 97, 114 >>
      @@ "bzip2" :> << 66, 90, 104 >>
      @@ "xz" :> << 253, 55, 122, 88, 90, 0 >>
      @@ "7z" :> << 55, 122, 188, 175, 39, 28 >>

Formats == DOMAIN magicNumbers

\* the files that are sniffed: the beginning of a signature (none of it, part
\* of it, all of it) followed by nothing, by one other byte or by a signature
SniffContents ==
    { SubSeq(magicNumbers[f], 1, Min(k, Len(magicNumbers[f]))) \o tail :
        f \in Formats, k \in 0..HeaderLen,
        tail \in { <<>>, << 255 >> } \cup { magicNumbers[g] : g \in Formats } }

\* expander.go 66-67: the zeroed buffer after file.Read copied the first bytes
\* of the file into it
ReadHeader(content) ==
    [i \in 1..HeaderLen |-> IF i <= Len(content) THEN content[i] ELSE 0]

\* expander.go 74: len(header) >= len(magic) && bytes.Equal(header[:len(magic)], magic)
HasMagic(hdr, magic) ==
    Len(hdr) >= Len(magic) /\ SubSeq(hdr, 1, Len(magic)) = magic

InitSniff ==
    /\ TarIdle /\ dirs = { <<>> } /\ files = << >>
    /\ IdleBz /\ IdleReg /\ IdleTwice /\ IdleConc
    /\ sContent \in SniffContents
    /\ sOpenOk \in BOOLEAN
    /\ sHeader = <<>>
    /\ sLeft = {}
    /\ sPc = "open"
    /\ sRes = NoRes
    /\ sRun = 1
    /\ sFirst = NoRes

SniffReturn(ok, format, e) ==
    sPc' = "returned" /\ sRes' = [ok |-> ok, format |-> format, err |-> e]

\* expander.go 59-63: os.Open
SniffOpen ==
    /\ sPc = "open"
    /\ IF sOpenOk THEN sPc' = "read" /\ UNCHANGED sRes
       ELSE SniffReturn(FALSE, "", "open")
    /\ UNCHANGED << sContent, sOpenOk, sHeader, sLeft, sRun, sFirst >>
    /\ UNCHANGED << tarOnly, dirs, files, bzvars, regvars, twicevars, concvars >>

\* expander.go 66-70: file.Read(header); an empty file gives io.EOF
SniffRead ==
    /\ sPc = "read"
    /\ sHeader' = ReadHeader(sContent)
    /\ IF sContent = <<>>
       THEN SniffReturn(FALSE, "", "read") /\ UNCHANGED sLeft
       ELSE sPc' = "range" /\ sLeft' = Formats /\ UNCHANGED sRes
    /\ UNCHANGED << sContent, sOpenOk, sRun, sFirst >>
    /\ UNCHANGED << tarOnly, dirs, files, bzvars, regvars, twicevars, concvars >>

\* expander.go 73-77: one turn of the range loop; the map hands out its
\* entries in any order
SniffRange ==
    /\ sPc = "range"
    /\ \E format \in sLeft :
         IF HasMagic(sHeader, magicNumbers[format])
         THEN SniffReturn(TRUE, format, "none") /\ UNCHANGED sLeft
         ELSE sLeft' = sLeft \ {format} /\ UNCHANGED << sPc, sRes >>
    /\ UNCHANGED << sContent, sOpenOk, sHeader, sRun, sFirst >>
    /\ UNCHANGED << tarOnly, dirs, files, bzvars, regvars, twicevars, concvars >>

\* expander.go 78: the loop ended without a match
SniffNone ==
    /\ sPc = "range"
    /\ sLeft = {}
    /\ SniffReturn(FALSE, "", "none")
    /\ UNCHANGED << sContent, sOpenOk, sHeader, sLeft, sRun, sFirst >>
    /\ UNCHANGED << tarOnly, dirs, files, bzvars, regvars, twicevars, concvars >>

\* expander.go 58: IsCompressedFile is called again on the same file
SniffAgain ==
    /\ sPc = "returned"
    /\ sRun = 1
    /\ sRun' = 2
    /\ sFirst' = sRes
    /\ sPc' = "open" /\ sRes' = NoRes /\ sHeader' = <<>> /\ sLeft' = {}
    /\ UNCHANGED << sContent, sOpenOk >>
    /\ UNCHANGED << tarOnly, dirs, files, bzvars, regvars, twicevars, concvars >>

NextSniff ==
    \/ SniffOpen
    \/ SniffRead
    \/ SniffRange
    \/ SniffNone
    \/ SniffAgain

SpecSniff == InitSniff /\ [][NextSniff]_vars

\* the formats whose signature the header starts with
Signatures(hdr) == { f \in Formats : HasMagic(hdr, magicNumbers[f]) }

\* C22: at most one signature of the table is a prefix of a header, so a
\* second call on the same file returns what the first one returned whatever
\* the order of the iteration; a call that could read the header returns
\* (true, format) for the format whose signature the header starts with, and
\* (false, "") exactly when the header starts with no signature
C22_SniffDeterministic ==
    /\ sHeader # <<>> => Cardinality(Signatures(sHeader)) <= 1
    /\ (sRun = 2 /\ sPc = "returned") => sRes = sFirst
    /\ (sPc = "returned" /\ sRes.err = "none") =>
          /\ sRes.ok = (Signatures(sHeader) # {})
          /\ sRes.ok => sRes.format \in Signatures(sHeader)
          /\ ~sRes.ok => sRes.format = ""
    /\ (sPc = "returned" /\ sRes.err # "none") =>
          (~sRes.ok /\ sRes.format = "")

\* both calls found the signature, the second one after visiting every other
\* format of the table first
C22_Witness ==
    /\ sRun = 2 /\ sPc = "returned"
    /\ sRes.ok /\ sFirst.ok
    /\ Cardinality(sLeft) = 1

====
